---- MODULE Spec2Model ----
(***************************************************************************)
(* Bakery lock of src/main.py: the registry (choosing[], number[]) grown   *)
(* under bakery_mutex, bakery_lock / bakery_unlock, and the id allocator   *)
(* and reset of class System.                                              *)
(*                                                                         *)
(* Threads interleave at the grain of one read or one write of a shared    *)
(* list per step (the grain at which the interpreter may switch threads).  *)
(* Python lists are 0-indexed: slot k of the code is element k+1 of the    *)
(* sequences below.                                                        *)
(***************************************************************************)
EXTENDS Integers, Sequences, FiniteSets, TLC

\* ---------------------------------------------------------------- bounds
\* Number of threads that use the lock concurrently.
NThreads == 2
\* allocate_bakery_id is not called once the counter has reached MaxIds.
MaxIds == 2
\* bakery_lock is not called while some ticket (or maximum read) has reached MaxTicket.
MaxTicket == 2
\* Largest id a caller passes to bakery_lock without allocating it.
MaxSparseId == 5

\* The ids of sparse registration: the top of the range; the ids below them
\* are never used by any caller.
SparseIds == (MaxSparseId - 1)..MaxSparseId

Threads == 1..NThreads
NoId == 0 - 1
NoThread == 0

VARIABLES
    choosing,           \* main.py:37  global list of flags
    number,             \* main.py:38  global list of tickets
    bakery_mutex,       \* main.py:36  holder of the registration lock, or NoThread
    assign_lock,        \* main.py:156 holder of System.assign_lock, or NoThread
    bakery_id_counter,  \* main.py:155 System.bakery_id_counter
    pc,                 \* per thread: the statement it is about to execute
    bid,                \* per thread: Process.bakery_id (main.py:112), or NoId
    idx,                \* per thread: local idx of allocate_bakery_id (main.py:182)
    max_num,            \* per thread: local max_num of bakery_lock (main.py:64)
    j,                  \* per thread: loop variable j of bakery_lock (main.py:68)
    n,                  \* per thread: len(number) as evaluated by range() (main.py:68)
    nested,             \* per thread: 0, or inside a critical section of the caller
                        \*   (main.py:275-281): 1 within Process.set_state's own
                        \*   bakery_lock .. bakery_unlock (main.py:123-129), 2 after it
    \* history variables (not program state)
    holders,            \* per thread t: threads that were in a critical section, ticket
                        \*   unreleased, when t called bakery_lock, and still are
    pred,               \* per thread t: threads whose choosing window ended before
                        \*   t's current window began and that have not entered since
    waited,             \* per thread: its current bakery_lock call slept in a wait loop
    alone,              \* the thread whose bakery_lock call began on an empty registry
                        \*   with every other thread idle, and no call since; or NoThread
    allocLog,           \* ids returned by allocate_bakery_id since the last reset
    resetCleared        \* slots dropped by reset if reset was the last step, else -1

vars == <<choosing, number, bakery_mutex, assign_lock, bakery_id_counter,
          pc, bid, idx, max_num, j, n, nested,
          holders, pred, waited, alone, allocLog, resetCleared>>

\* ---------------------------------------------------------------- helpers
\* s[k] of the code, for a 0-based index k.
At(s, k) == s[k + 1]

\* s[k] = v of the code.
Put(s, k, v) == [s EXCEPT ![k + 1] = v]

RECURSIVE SeqMax(_)
\* max(number) if number else 0
SeqMax(s) ==
    IF s = << >> THEN 0
    ELSE LET m == SeqMax(Tail(s)) IN IF Head(s) > m THEN Head(s) ELSE m

\* The statements of bakery_lock after choosing[i] = False and before it returns.
ScanPcs == {"scan_start", "test_choosing", "inner_nz", "inner_lt", "inner_eq"}

\* The statements of bakery_lock.
LockPcs == {"lock_ens_acq", "lock_ens_loop", "lock_ens_num", "set_choosing",
            "read_max", "write_num", "clear_choosing"} \cup ScanPcs

\* The statements of allocate_bakery_id.
AllocPcs == {"alloc_read", "alloc_inc", "alloc_ens_acq", "alloc_ens_loop",
             "alloc_ens_num", "alloc_ret"}

Goto(t, l) == pc' = [pc EXCEPT ![t] = l]

NotReset == resetCleared' = 0 - 1

\* ---------------------------------------------------------------- initial state
Init ==
    /\ choosing = << >>
    /\ number = << >>
    /\ bakery_mutex = NoThread
    /\ assign_lock = NoThread
    /\ bakery_id_counter = 0
    /\ pc = [t \in Threads |-> "idle"]
    /\ bid = [t \in Threads |-> NoId]
    /\ idx = [t \in Threads |-> NoId]
    /\ max_num = [t \in Threads |-> 0]
    /\ j = [t \in Threads |-> 0]
    /\ n = [t \in Threads |-> 0]
    /\ nested = [t \in Threads |-> 0]
    /\ holders = [t \in Threads |-> {}]
    /\ pred = [t \in Threads |-> {}]
    /\ waited = [t \in Threads |-> FALSE]
    /\ alone = NoThread
    /\ allocLog = << >>
    /\ resetCleared = 0 - 1

\* ---------------------------------------------------------------- ensure_bakery_size
\* The statements of ensure_bakery_size, called from allocate_bakery_id or
\* from bakery_lock.
EnsurePcs == {"alloc_ens_acq", "alloc_ens_loop", "alloc_ens_num",
              "lock_ens_acq", "lock_ens_loop", "lock_ens_num"}

\* The argument of the running ensure_bakery_size call: idx in allocate_bakery_id,
\* i in bakery_lock.
EnsureArg(t) == IF pc[t] \in AllocPcs THEN idx[t] ELSE bid[t]

\* with bakery_mutex:  (entry; blocks while another thread holds the mutex)
ensure_acquire(t) ==
    /\ pc[t] \in {"alloc_ens_acq", "lock_ens_acq"}
    /\ bakery_mutex = NoThread
    /\ bakery_mutex' = t
    /\ Goto(t, IF pc[t] = "alloc_ens_acq" THEN "alloc_ens_loop" ELSE "lock_ens_loop")
    /\ NotReset
    /\ UNCHANGED <<nested, holders>>
    /\ UNCHANGED <<choosing, number, assign_lock, bakery_id_counter,
                   bid, idx, max_num, j, n, pred, waited, alone, allocLog>>

\* Mutant of ensure_loop: the test is idx > len(choosing), one slot short.
ensure_loop_short(t) ==
    /\ pc[t] \in {"alloc_ens_loop", "lock_ens_loop"}
    /\ IF EnsureArg(t) > Len(choosing)
       THEN /\ choosing' = Append(choosing, FALSE)
            /\ Goto(t, IF pc[t] = "alloc_ens_loop" THEN "alloc_ens_num" ELSE "lock_ens_num")
            /\ UNCHANGED bakery_mutex
       ELSE /\ bakery_mutex' = NoThread
            /\ Goto(t, IF pc[t] = "alloc_ens_loop" THEN "alloc_ret" ELSE "set_choosing")
            /\ UNCHANGED choosing
    /\ NotReset
    /\ UNCHANGED <<nested, holders>>
    /\ UNCHANGED <<number, assign_lock, bakery_id_counter,
                   bid, idx, max_num, j, n, pred, waited, alone, allocLog>>

\* while idx >= len(choosing): choosing.append(False)
\* and, when the test fails, the exit of the with block.
ensure_loop(t) ==
    /\ pc[t] \in {"alloc_ens_loop", "lock_ens_loop"}
    /\ IF EnsureArg(t) >= Len(choosing)
       THEN /\ choosing' = Append(choosing, FALSE)
            /\ Goto(t, IF pc[t] = "alloc_ens_loop" THEN "alloc_ens_num" ELSE "lock_ens_num")
            /\ UNCHANGED bakery_mutex
       ELSE /\ bakery_mutex' = NoThread
            /\ Goto(t, IF pc[t] = "alloc_ens_loop" THEN "alloc_ret" ELSE "set_choosing")
            /\ UNCHANGED choosing
    /\ NotReset
    /\ UNCHANGED <<nested, holders>>
    /\ UNCHANGED <<number, assign_lock, bakery_id_counter,
                   bid, idx, max_num, j, n, pred, waited, alone, allocLog>>

\* Mutant of ensure_append_number: number is rebuilt as a list of zeros, one
\* longer than before, instead of being appended to.
ensure_append_number_fresh(t) ==
    /\ pc[t] \in {"alloc_ens_num", "lock_ens_num"}
    /\ number' = [k \in 1..(Len(number) + 1) |-> 0]
    /\ Goto(t, IF pc[t] = "alloc_ens_num" THEN "alloc_ens_loop" ELSE "lock_ens_loop")
    /\ NotReset
    /\ UNCHANGED <<nested, holders>>
    /\ UNCHANGED <<choosing, bakery_mutex, assign_lock, bakery_id_counter,
                   bid, idx, max_num, j, n, pred, waited, alone, allocLog>>

\* number.append(0)
ensure_append_number(t) ==
    /\ pc[t] \in {"alloc_ens_num", "lock_ens_num"}
    /\ number' = Append(number, 0)
    /\ Goto(t, IF pc[t] = "alloc_ens_num" THEN "alloc_ens_loop" ELSE "lock_ens_loop")
    /\ NotReset
    /\ UNCHANGED <<nested, holders>>
    /\ UNCHANGED <<choosing, bakery_mutex, assign_lock, bakery_id_counter,
                   bid, idx, max_num, j, n, pred, waited, alone, allocLog>>

ensure_bakery_size(t) ==
    ensure_acquire(t) \/ ensure_loop(t) \/ ensure_append_number(t)

\* ---------------------------------------------------------------- System.allocate_bakery_id
\* Mutant of alloc_acquire: the body runs without waiting for assign_lock.
alloc_acquire_unlocked(t) ==
    /\ pc[t] = "idle"
    /\ bid[t] = NoId
    /\ bakery_id_counter < MaxIds
    /\ assign_lock' = t
    /\ Goto(t, "alloc_read")
    /\ NotReset
    /\ UNCHANGED <<nested, holders>>
    /\ UNCHANGED <<choosing, number, bakery_mutex, bakery_id_counter,
                   bid, idx, max_num, j, n, pred, waited, alone, allocLog>>

\* with self.assign_lock:  (entry; blocks while another thread holds the lock)
alloc_acquire(t) ==
    /\ pc[t] = "idle"
    /\ bid[t] = NoId
    /\ bakery_id_counter < MaxIds
    /\ assign_lock = NoThread
    /\ assign_lock' = t
    /\ Goto(t, "alloc_read")
    /\ NotReset
    /\ UNCHANGED <<nested, holders>>
    /\ UNCHANGED <<choosing, number, bakery_mutex, bakery_id_counter,
                   bid, idx, max_num, j, n, pred, waited, alone, allocLog>>

\* idx = self.bakery_id_counter
alloc_read(t) ==
    /\ pc[t] = "alloc_read"
    /\ idx' = [idx EXCEPT ![t] = bakery_id_counter]
    /\ Goto(t, "alloc_inc")
    /\ NotReset
    /\ UNCHANGED <<nested, holders>>
    /\ UNCHANGED <<choosing, number, bakery_mutex, assign_lock, bakery_id_counter,
                   bid, max_num, j, n, pred, waited, alone, allocLog>>

\* Mutant of alloc_inc: allocate_bakery_id does not call ensure_bakery_size.
alloc_inc_lazy(t) ==
    /\ pc[t] = "alloc_inc"
    /\ bakery_id_counter' = bakery_id_counter + 1
    /\ Goto(t, "alloc_ret")
    /\ NotReset
    /\ UNCHANGED <<nested, holders>>
    /\ UNCHANGED <<choosing, number, bakery_mutex, assign_lock,
                   bid, idx, max_num, j, n, pred, waited, alone, allocLog>>

\* self.bakery_id_counter += 1
alloc_inc(t) ==
    /\ pc[t] = "alloc_inc"
    /\ bakery_id_counter' = bakery_id_counter + 1
    /\ Goto(t, "alloc_ens_acq")
    /\ NotReset
    /\ UNCHANGED <<nested, holders>>
    /\ UNCHANGED <<choosing, number, bakery_mutex, assign_lock,
                   bid, idx, max_num, j, n, pred, waited, alone, allocLog>>

\* return idx  (leaves the with block; the caller stores the id in Process.bakery_id)
alloc_return(t) ==
    /\ pc[t] = "alloc_ret"
    /\ assign_lock' = NoThread
    /\ bid' = [bid EXCEPT ![t] = idx[t]]
    /\ idx' = [idx EXCEPT ![t] = NoId]
    /\ allocLog' = Append(allocLog, idx[t])
    /\ Goto(t, "idle")
    /\ NotReset
    /\ UNCHANGED <<nested, holders>>
    /\ UNCHANGED <<choosing, number, bakery_mutex, bakery_id_counter,
                   max_num, j, n, pred, waited, alone>>

allocate_bakery_id(t) ==
    alloc_acquire(t) \/ alloc_read(t) \/ alloc_inc(t) \/ alloc_return(t)

\* ---------------------------------------------------------------- bakery_lock
\* A caller passes an id of its own choice to bakery_lock(i), distinct from the
\* ids the other threads use.
pick_id(t, k) ==
    /\ pc[t] = "idle"
    /\ bid[t] = NoId
    /\ \A u \in Threads : bid[u] # k
    /\ bid' = [bid EXCEPT ![t] = k]
    /\ NotReset
    /\ UNCHANGED <<nested, holders>>
    /\ UNCHANGED <<choosing, number, bakery_mutex, assign_lock, bakery_id_counter,
                   pc, idx, max_num, j, n, pred, waited, alone, allocLog>>

\* No ticket, published or about to be (a maximum already read), has reached b.
TicketsBelow(b) ==
    /\ SeqMax(number) < b
    /\ \A u \in Threads : max_num[u] < b

\* The other threads that are in a critical section and have not set their
\* ticket back to 0 in it.
HoldersNow(t) == {u \in Threads \ {t} : pc[u] = "cs" /\ nested[u] < 2}

\* bakery_lock(i) is called.
lock_call(t) ==
    /\ pc[t] = "idle"
    /\ bid[t] # NoId
    /\ TicketsBelow(MaxTicket)
    /\ Goto(t, "lock_ens_acq")
    /\ waited' = [waited EXCEPT ![t] = FALSE]
    /\ alone' = IF number = << >> /\ choosing = << >>
                   /\ \A u \in Threads \ {t} : pc[u] = "idle"
                THEN t ELSE NoThread
    /\ holders' = [holders EXCEPT ![t] = HoldersNow(t)]
    /\ NotReset
    /\ UNCHANGED nested
    /\ UNCHANGED <<choosing, number, bakery_mutex, assign_lock, bakery_id_counter,
                   bid, idx, max_num, j, n, pred, allocLog>>

\* choosing[i] = True
set_choosing(t) ==
    /\ pc[t] = "set_choosing"
    /\ choosing' = Put(choosing, bid[t], TRUE)
    /\ pred' = [pred EXCEPT ![t] = {u \in Threads \ {t} : pc[u] \in ScanPcs}]
    /\ Goto(t, "read_max")
    /\ NotReset
    /\ UNCHANGED <<nested, holders>>
    /\ UNCHANGED <<number, bakery_mutex, assign_lock, bakery_id_counter,
                   bid, idx, max_num, j, n, waited, alone, allocLog>>

\* Mutant of read_max: the registry is not read, the maximum is taken to be 0.
read_max_none(t) ==
    /\ pc[t] = "read_max"
    /\ max_num' = [max_num EXCEPT ![t] = 0]
    /\ Goto(t, "write_num")
    /\ NotReset
    /\ UNCHANGED <<nested, holders>>
    /\ UNCHANGED <<choosing, number, bakery_mutex, assign_lock, bakery_id_counter,
                   bid, idx, j, n, pred, waited, alone, allocLog>>

\* max_num = max(number) if number else 0
read_max(t) ==
    /\ pc[t] = "read_max"
    /\ max_num' = [max_num EXCEPT ![t] = SeqMax(number)]
    /\ Goto(t, "write_num")
    /\ NotReset
    /\ UNCHANGED <<nested, holders>>
    /\ UNCHANGED <<choosing, number, bakery_mutex, assign_lock, bakery_id_counter,
                   bid, idx, j, n, pred, waited, alone, allocLog>>

\* number[i] = max_num + 1  (max_num is not read again: it is set back to 0)
write_num(t) ==
    /\ pc[t] = "write_num"
    /\ number' = Put(number, bid[t], max_num[t] + 1)
    /\ max_num' = [max_num EXCEPT ![t] = 0]
    /\ Goto(t, "clear_choosing")
    /\ NotReset
    /\ UNCHANGED <<nested, holders>>
    /\ UNCHANGED <<choosing, bakery_mutex, assign_lock, bakery_id_counter,
                   bid, idx, j, n, pred, waited, alone, allocLog>>

\* Mutant of clear_choosing: the flag is left True.
clear_choosing_skip(t) ==
    /\ pc[t] = "clear_choosing"
    /\ Goto(t, "scan_start")
    /\ NotReset
    /\ UNCHANGED <<nested, holders>>
    /\ UNCHANGED <<choosing, number, bakery_mutex, assign_lock, bakery_id_counter,
                   bid, idx, max_num, j, n, pred, waited, alone, allocLog>>

\* choosing[i] = False
clear_choosing(t) ==
    /\ pc[t] = "clear_choosing"
    /\ choosing' = Put(choosing, bid[t], FALSE)
    /\ Goto(t, "scan_start")
    /\ NotReset
    /\ UNCHANGED <<nested, holders>>
    /\ UNCHANGED <<number, bakery_mutex, assign_lock, bakery_id_counter,
                   bid, idx, max_num, j, n, pred, waited, alone, allocLog>>

\* bakery_lock returns: thread t is in its critical section (j and the range
\* are not read again: they are set back to 0).
Return(t) ==
    /\ Goto(t, "cs")
    /\ j' = [j EXCEPT ![t] = 0]
    /\ n' = [n EXCEPT ![t] = 0]
    /\ pred' = [u \in Threads |-> pred[u] \ {t}]

\* The for statement takes the next j of range(n), or ends the loop.
NextJ(t) ==
    IF j[t] + 1 < n[t]
    THEN /\ j' = [j EXCEPT ![t] = j[t] + 1]
         /\ Goto(t, "test_choosing")
         /\ UNCHANGED <<n, pred>>
    ELSE Return(t)

\* for j in range(len(number)):  (len(number) is evaluated once, here)
scan_start(t) ==
    /\ pc[t] = "scan_start"
    /\ IF Len(number) = 0
       THEN Return(t)
       ELSE /\ n' = [n EXCEPT ![t] = Len(number)]
            /\ j' = [j EXCEPT ![t] = 0]
            /\ Goto(t, "test_choosing")
            /\ UNCHANGED pred
    /\ NotReset
    /\ UNCHANGED <<nested, holders>>
    /\ UNCHANGED <<choosing, number, bakery_mutex, assign_lock, bakery_id_counter,
                   bid, idx, max_num, waited, alone, allocLog>>

\* while choosing[j]:  time.sleep(0.001)
\* A false test ends the body of the for loop for this j.
test_choosing(t) ==
    /\ pc[t] = "test_choosing"
    /\ IF At(choosing, j[t])
       THEN /\ Goto(t, "inner_nz")
            /\ waited' = [waited EXCEPT ![t] = TRUE]
            /\ UNCHANGED <<j, n, pred>>
       ELSE /\ NextJ(t)
            /\ UNCHANGED waited
    /\ NotReset
    /\ UNCHANGED <<nested, holders>>
    /\ UNCHANGED <<choosing, number, bakery_mutex, assign_lock, bakery_id_counter,
                   bid, idx, max_num, alone, allocLog>>

\* The inner while statement is part of the body of `while choosing[j]`.
\* First operand of its test: number[j] != 0. When it is false the inner loop
\* ends, and with it the body of the outer while, whose test is made again.
inner_nz(t) ==
    /\ pc[t] = "inner_nz"
    /\ Goto(t, IF At(number, j[t]) # 0 THEN "inner_lt" ELSE "test_choosing")
    /\ NotReset
    /\ UNCHANGED <<nested, holders>>
    /\ UNCHANGED <<choosing, number, bakery_mutex, assign_lock, bakery_id_counter,
                   bid, idx, max_num, j, n, pred, waited, alone, allocLog>>

\* number[j] < number[i]; when true the test holds: time.sleep(0.001), test again.
inner_lt(t) ==
    /\ pc[t] = "inner_lt"
    /\ IF At(number, j[t]) < At(number, bid[t])
       THEN /\ Goto(t, "inner_nz")
            /\ waited' = [waited EXCEPT ![t] = TRUE]
       ELSE /\ Goto(t, "inner_eq")
            /\ UNCHANGED waited
    /\ NotReset
    /\ UNCHANGED <<nested, holders>>
    /\ UNCHANGED <<choosing, number, bakery_mutex, assign_lock, bakery_id_counter,
                   bid, idx, max_num, j, n, pred, alone, allocLog>>

\* The tie-break of the test: number[j] == number[i] and j < i.
TieBreak(nj, ni, jj, ii) == nj = ni /\ jj < ii

\* number[j] == number[i] and j < i; when true: time.sleep(0.001), test again.
inner_eq(t) ==
    /\ pc[t] = "inner_eq"
    /\ IF TieBreak(At(number, j[t]), At(number, bid[t]), j[t], bid[t])
       THEN /\ Goto(t, "inner_nz")
            /\ waited' = [waited EXCEPT ![t] = TRUE]
       ELSE /\ Goto(t, "test_choosing")
            /\ UNCHANGED waited
    /\ NotReset
    /\ UNCHANGED <<nested, holders>>
    /\ UNCHANGED <<choosing, number, bakery_mutex, assign_lock, bakery_id_counter,
                   bid, idx, max_num, j, n, pred, alone, allocLog>>

bakery_lock(t) ==
    \/ lock_call(t) \/ ensure_bakery_size(t)
    \/ set_choosing(t) \/ read_max(t) \/ write_num(t) \/ clear_choosing(t)
    \/ scan_start(t) \/ test_choosing(t) \/ inner_nz(t) \/ inner_lt(t) \/ inner_eq(t)

\* ---------------------------------------------------------------- bakery_unlock
\* Where bakery_unlock returns to: the finally clause of Process.set_state
\* (main.py:128-129) returns into the critical section of the caller of
\* set_state (main.py:278), every other bakery_unlock ends a critical section.
UnlockReturn(t) ==
    IF nested[t] = 1
    THEN /\ nested' = [nested EXCEPT ![t] = 2]
         /\ UNCHANGED pc
    ELSE /\ nested' = [nested EXCEPT ![t] = 0]
         /\ Goto(t, "idle")

\* proc.set_state("READY") is called inside the critical section opened at
\* main.py:275: set_state calls bakery_lock with the same id (main.py:123).
set_state_call(t) ==
    /\ pc[t] = "cs"
    /\ nested[t] = 0
    /\ TicketsBelow(MaxTicket)
    /\ nested' = [nested EXCEPT ![t] = 1]
    /\ Goto(t, "lock_ens_acq")
    /\ waited' = [waited EXCEPT ![t] = FALSE]
    /\ alone' = NoThread
    /\ holders' = [holders EXCEPT ![t] = HoldersNow(t)]
    /\ NotReset
    /\ UNCHANGED <<choosing, number, bakery_mutex, assign_lock, bakery_id_counter,
                   bid, idx, max_num, j, n, pred, allocLog>>

\* Mutant of bakery_unlock: the ticket is not set back to 0.
bakery_unlock_keep(t) ==
    /\ pc[t] = "cs"
    /\ UnlockReturn(t)
    /\ holders' = [u \in Threads |-> IF u = t THEN {} ELSE holders[u] \ {t}]
    /\ pred' = [pred EXCEPT ![t] = {}]
    /\ waited' = [waited EXCEPT ![t] = FALSE]
    /\ alone' = IF alone = t THEN NoThread ELSE alone
    /\ NotReset
    /\ UNCHANGED <<choosing, number, bakery_mutex, assign_lock, bakery_id_counter,
                   bid, idx, max_num, j, n, allocLog>>

\* Mutant of bakery_unlock: every ticket is set back to 0.
bakery_unlock_all(t) ==
    /\ pc[t] = "cs"
    /\ number' = [k \in 1..Len(number) |-> 0]
    /\ UnlockReturn(t)
    /\ holders' = [u \in Threads |-> IF u = t THEN {} ELSE holders[u] \ {t}]
    /\ pred' = [pred EXCEPT ![t] = {}]
    /\ waited' = [waited EXCEPT ![t] = FALSE]
    /\ alone' = IF alone = t THEN NoThread ELSE alone
    /\ NotReset
    /\ UNCHANGED <<choosing, bakery_mutex, assign_lock, bakery_id_counter,
                   bid, idx, max_num, j, n, allocLog>>

\* number[i] = 0, called at the end of the critical section.
bakery_unlock(t) ==
    /\ pc[t] = "cs"
    /\ number' = Put(number, bid[t], 0)
    /\ UnlockReturn(t)
    /\ holders' = [u \in Threads |-> IF u = t THEN {} ELSE holders[u] \ {t}]
    /\ pred' = [pred EXCEPT ![t] = {}]
    /\ waited' = [waited EXCEPT ![t] = FALSE]
    /\ alone' = IF alone = t THEN NoThread ELSE alone
    /\ NotReset
    /\ UNCHANGED <<choosing, bakery_mutex, assign_lock, bakery_id_counter,
                   bid, idx, max_num, j, n, allocLog>>

\* bakery_unlock(i) is called by a thread that is not in a critical section:
\* it has released already, or never called bakery_lock(i).
unlock_call(t) ==
    /\ pc[t] = "idle"
    /\ bid[t] # NoId
    /\ Goto(t, "unlock")
    /\ NotReset
    /\ UNCHANGED <<nested, holders>>
    /\ UNCHANGED <<choosing, number, bakery_mutex, assign_lock, bakery_id_counter,
                   bid, idx, max_num, j, n, pred, waited, alone, allocLog>>

\* number[i] = 0 of that call: IndexError, and nothing is written, if the
\* registry has no slot i.
unlock_unheld(t) ==
    /\ pc[t] = "unlock"
    /\ number' = IF bid[t] < Len(number) THEN Put(number, bid[t], 0) ELSE number
    /\ Goto(t, "idle")
    /\ NotReset
    /\ UNCHANGED <<nested, holders>>
    /\ UNCHANGED <<choosing, bakery_mutex, assign_lock, bakery_id_counter,
                   bid, idx, max_num, j, n, pred, waited, alone, allocLog>>

\* ---------------------------------------------------------------- processes and reset
\* Scheduler.run_process returns: the process is finished and its id is used
\* no more (ids are not recycled; the slot stays in the registry).
retire(t) ==
    /\ pc[t] = "idle"
    /\ bid[t] # NoId
    /\ bid' = [bid EXCEPT ![t] = NoId]
    /\ NotReset
    /\ UNCHANGED <<nested, holders>>
    /\ UNCHANGED <<choosing, number, bakery_mutex, assign_lock, bakery_id_counter,
                   pc, idx, max_num, j, n, pred, waited, alone, allocLog>>

\* Mutant of reset: the id counter is not set back to 0.
reset_keep_counter ==
    /\ \A t \in Threads : pc[t] = "idle"
    /\ bakery_mutex = NoThread
    /\ choosing' = << >>
    /\ number' = << >>
    /\ bid' = [t \in Threads |-> NoId]
    /\ allocLog' = << >>
    /\ resetCleared' = Len(number)
    /\ UNCHANGED <<bakery_mutex, assign_lock, bakery_id_counter, pc, idx, max_num, j, n,
                   nested, holders, pred, waited, alone>>

\* System.reset(). menu() runs it (option 3) only between simulations, each of
\* which joins its threads before it returns: no thread is inside the protocol.
reset ==
    /\ \A t \in Threads : pc[t] = "idle"
    /\ bakery_mutex = NoThread
    /\ bakery_id_counter' = 0
    /\ choosing' = << >>
    /\ number' = << >>
    /\ bid' = [t \in Threads |-> NoId]
    /\ allocLog' = << >>
    /\ resetCleared' = Len(number)
    /\ UNCHANGED <<bakery_mutex, assign_lock, pc, idx, max_num, j, n,
                   nested, holders, pred, waited, alone>>

\* ---------------------------------------------------------------- specifications
\* Threads obtain their ids from allocate_bakery_id.
Next ==
    \/ \E t \in Threads : alloc_acquire(t)
    \/ \E t \in Threads : alloc_read(t)
    \/ \E t \in Threads : alloc_inc(t)
    \/ \E t \in Threads : alloc_return(t)
    \/ \E t \in Threads : ensure_acquire(t)
    \/ \E t \in Threads : ensure_loop(t)
    \/ \E t \in Threads : ensure_append_number(t)
    \/ \E t \in Threads : lock_call(t)
    \/ \E t \in Threads : set_choosing(t)
    \/ \E t \in Threads : read_max(t)
    \/ \E t \in Threads : write_num(t)
    \/ \E t \in Threads : clear_choosing(t)
    \/ \E t \in Threads : scan_start(t)
    \/ \E t \in Threads : test_choosing(t)
    \/ \E t \in Threads : inner_nz(t)
    \/ \E t \in Threads : inner_lt(t)
    \/ \E t \in Threads : inner_eq(t)
    \/ \E t \in Threads : bakery_unlock(t)
    \/ \E t \in Threads : retire(t)
    \/ reset

Spec == Init /\ [][Next]_vars

\* Callers pass ids of their own choice out of SparseIds (sparse registration,
\* the ids below are never used); no allocator.
NextSparse ==
    \/ \E t \in Threads : \E k \in SparseIds : pick_id(t, k)
    \/ \E t \in Threads : ensure_acquire(t)
    \/ \E t \in Threads : ensure_loop(t)
    \/ \E t \in Threads : ensure_append_number(t)
    \/ \E t \in Threads : lock_call(t)
    \/ \E t \in Threads : set_choosing(t)
    \/ \E t \in Threads : read_max(t)
    \/ \E t \in Threads : write_num(t)
    \/ \E t \in Threads : clear_choosing(t)
    \/ \E t \in Threads : scan_start(t)
    \/ \E t \in Threads : test_choosing(t)
    \/ \E t \in Threads : inner_nz(t)
    \/ \E t \in Threads : inner_lt(t)
    \/ \E t \in Threads : inner_eq(t)
    \/ \E t \in Threads : bakery_unlock(t)
    \/ \E t \in Threads : retire(t)
    \/ reset

SpecSparse == Init /\ [][NextSparse]_vars

\* The simulation: ids from allocate_bakery_id, and critical sections that call
\* Process.set_state (main.py:275-281).
NextSim ==
    \/ Next
    \/ \E t \in Threads : set_state_call(t)

SpecSim == Init /\ [][NextSim]_vars

\* Sparse ids, critical sections that call Process.set_state, and calls of
\* bakery_unlock by threads that hold nothing.
NextRelease ==
    \/ NextSparse
    \/ \E t \in Threads : set_state_call(t)
    \/ \E t \in Threads : unlock_call(t)
    \/ \E t \in Threads : unlock_unheld(t)

SpecRelease == Init /\ [][NextRelease]_vars

\* The steps of a thread that is inside allocate_bakery_id, bakery_lock or its
\* critical section: the scheduler runs every such thread again and again.
Proceed(t) ==
    \/ alloc_read(t) \/ alloc_inc(t) \/ alloc_return(t)
    \/ ensure_loop(t) \/ ensure_append_number(t)
    \/ set_choosing(t) \/ read_max(t) \/ write_num(t) \/ clear_choosing(t)
    \/ scan_start(t) \/ test_choosing(t) \/ inner_nz(t) \/ inner_lt(t) \/ inner_eq(t)
    \/ bakery_unlock(t)

\* Fair scheduling: a thread inside an operation keeps taking steps, and a thread
\* waiting for bakery_mutex obtains it if it is released again and again.
SpecFair ==
    /\ Init /\ [][Next]_vars
    /\ \A t \in Threads : WF_vars(Proceed(t)) /\ SF_vars(ensure_acquire(t))

\* ---------------------------------------------------------------- notions used by the claims
InCS(t) == pc[t] = "cs"

\* (a, i) is before (b, k) in the order by ticket, then index.
LexLess(a, i, b, k) == a < b \/ (a = b /\ i < k)

\* The test of the inner while of thread t's scan, on the current registry.
InnerTest(t) ==
    /\ At(number, j[t]) # 0
    /\ \/ At(number, j[t]) < At(number, bid[t])
       \/ TieBreak(At(number, j[t]), At(number, bid[t]), j[t], bid[t])

\* Thread t is inside the wait loops of its scan at slot k, and the registry as
\* it stands keeps it there.
BlockedOn(t, k) ==
    /\ pc[t] \in {"test_choosing", "inner_nz", "inner_lt", "inner_eq"}
    /\ j[t] = k
    /\ \/ At(choosing, k)
       \/ pc[t] # "test_choosing" /\ InnerTest(t)

\* ================================================================ claims
\* C1 (mutual exclusion): no two threads are between the return of bakery_lock
\* and the call of bakery_unlock at the same time.
MutualExclusion ==
    \A t, u \in Threads : t # u => ~(InCS(t) /\ InCS(u))

\* C2 (weak starvation freedom): under fair scheduling, with every thread that
\* enters its critical section leaving it again, a bakery_lock that was called
\* eventually returns.
StarvationFree ==
    \A t \in Threads : (pc[t] = "lock_ens_acq") ~> InCS(t)

\* C3 (partial-order fairness): a thread is not in its critical section while a
\* thread whose choosing window ended before its own began is still waiting to
\* enter.
FirstComeFirstServed ==
    \A t \in Threads : InCS(t) => pred[t] = {}

\* C4 (tie-break on equal tickets): while two threads past their choosing
\* windows hold the same nonzero ticket, the one with the higher index is not
\* in its critical section; it enters only after the lower one has released.
TieBreakAdmission ==
    \A lo, hi \in Threads :
        ( /\ bid[lo] # NoId /\ bid[lo] < bid[hi]
          /\ pc[lo] \in ScanPcs \cup {"cs"}
          /\ pc[hi] \in ScanPcs \cup {"cs"}
          /\ At(number, bid[lo]) # 0
          /\ At(number, bid[lo]) = At(number, bid[hi]) )
        => ~InCS(hi)

\* C5 (holder has the minimal ticket): the thread in its critical section has
\* a nonzero ticket, and (ticket, index) of it is before that of every other
\* slot with a nonzero ticket whose choosing flag is down.
HolderMinimal ==
    \A t \in Threads : InCS(t) =>
        /\ At(number, bid[t]) # 0
        /\ \A k \in 0..(Len(number) - 1) :
              (k # bid[t] /\ At(number, k) # 0 /\ ~At(choosing, k))
              => LexLess(At(number, bid[t]), bid[t], At(number, k), k)

\* C6 (deadlock freedom): no two threads are each kept waiting on the other's
\* slot, and whenever some thread is inside bakery_lock and none is in its
\* critical section, some thread inside bakery_lock is not kept waiting on any
\* slot (a thread waiting for bakery_mutex is not: its holder never waits).
DeadlockFree ==
    /\ \A t, u \in Threads :
          t # u => ~(BlockedOn(t, bid[u]) /\ BlockedOn(u, bid[t]))
    /\ ( (\E t \in Threads : pc[t] \in LockPcs) /\ (\A t \in Threads : ~InCS(t)) )
       => \E t \in Threads :
             pc[t] \in LockPcs /\ \A k \in 0..(Len(number) - 1) : ~BlockedOn(t, k)

\* Witness of C6: a thread is kept in the ticket wait by another thread's lower
\* pair while nobody is in the critical section.
DeadlockFreeWitness ==
    \E t, u \in Threads :
        /\ t # u
        /\ pc[t] \in {"inner_nz", "inner_lt", "inner_eq"}
        /\ j[t] = bid[u]
        /\ InnerTest(t)
        /\ pc[u] \in LockPcs
        /\ \A v \in Threads : ~InCS(v)

\* C7 (reset): right after reset the registry is empty and the id counter is 0,
\* and the first id allocated since a reset (or since the start) is 0.
ResetClears ==
    /\ resetCleared >= 0 =>
          /\ choosing = << >>
          /\ number = << >>
          /\ bakery_id_counter = 0
    /\ allocLog # << >> => allocLog[1] = 0

\* Witness of C7: a reset has just dropped at least two slots.
ResetClearsWitness ==
    resetCleared >= 2 /\ choosing = << >> /\ number = << >> /\ bakery_id_counter = 0

\* C8 (sparse registration): a thread whose bakery_lock(k) began on an empty
\* registry with nobody else in the protocol never sleeps in a wait loop, and
\* when it returns slots 0..k exist, slots 0..k-1 hold (False, 0) and
\* number[k] = 1.
SparseAlone ==
    \A t \in Threads :
        alone = t =>
            /\ ~waited[t]
            /\ InCS(t) =>
                  /\ Len(choosing) = bid[t] + 1
                  /\ Len(number) = bid[t] + 1
                  /\ \A k \in 0..(bid[t] - 1) : At(number, k) = 0 /\ ~At(choosing, k)
                  /\ At(number, bid[t]) = 1
                  /\ ~At(choosing, bid[t])

\* Witness of C8: bakery_lock(5) on an empty registry has returned.
SparseAloneWitness ==
    \E t \in Threads :
        alone = t /\ InCS(t) /\ bid[t] = 5 /\ Len(number) = 6 /\ At(number, 5) = 1

\* C9 (ids strictly increasing and unique): the ids returned since the last
\* reset are strictly increasing in the order of return, and no two threads
\* hold the same id.
IdsIncreasing ==
    /\ \A a, b \in DOMAIN allocLog : a < b => allocLog[a] < allocLog[b]
    /\ \A t, u \in Threads : (t # u /\ bid[t] # NoId) => bid[t] # bid[u]

\* Witness of C9: an id has been returned and a second call, which began
\* before the first returned, is about to return the next one.
IdsIncreasingWitness ==
    /\ Len(allocLog) >= 1
    /\ \E t \in Threads : pc[t] = "alloc_ret" /\ idx[t] > allocLog[Len(allocLog)]

\* C10 as stated: a step of allocate_bakery_id leaves choosing and number as
\* they are.
AllocLeavesRegistry ==
    [][ \A t \in Threads :
           (pc[t] \in AllocPcs /\ pc'[t] # pc[t])
           => (choosing' = choosing /\ number' = number) ]_vars

\* C10 as amended: allocate_bakery_id grows the registry itself. Its steps
\* change choosing and number only by appending False and 0, and when it
\* returns id k slot k exists (so does the slot of every id a thread holds).
AllocGrowsRegistry ==
    /\ [][ \A t \in Threads :
              (pc[t] \in AllocPcs /\ pc'[t] # pc[t])
              => /\ choosing' \in {choosing, Append(choosing, FALSE)}
                 /\ number' \in {number, Append(number, 0)} ]_vars
    /\ [](\A t \in Threads :
             /\ pc[t] = "alloc_ret" => (Len(choosing) > idx[t] /\ Len(number) > idx[t])
             /\ bid[t] # NoId => (Len(choosing) > bid[t] /\ Len(number) > bid[t]))

\* Witness of C10: allocate_bakery_id is about to return an id whose slot it
\* has just appended; the id has never been passed to bakery_lock.
AllocGrowsRegistryWitness ==
    \E t \in Threads :
        /\ pc[t] = "alloc_ret"
        /\ idx[t] >= 1
        /\ Len(number) = idx[t] + 1
        /\ At(number, idx[t]) = 0

\* C11 (growth is monotonic and idempotent): no step but reset shortens
\* choosing or number; a step of ensure_bakery_size(k) changes them only by
\* appending False and 0, and not at all when slot k exists already; and when
\* ensure_bakery_size(k) has returned, slot k exists.
GrowthMonotonic ==
    /\ [][ /\ resetCleared' < 0 =>
                /\ Len(choosing') >= Len(choosing)
                /\ Len(number') >= Len(number)
           /\ \A t \in Threads :
                 (pc[t] \in EnsurePcs /\ pc'[t] # pc[t]) =>
                    /\ choosing' \in {choosing, Append(choosing, FALSE)}
                    /\ number' \in {number, Append(number, 0)}
                    /\ (Len(choosing) > EnsureArg(t) /\ Len(number) > EnsureArg(t))
                       => (choosing' = choosing /\ number' = number) ]_vars
    /\ [](\A t \in Threads :
             pc[t] \in {"alloc_ret", "set_choosing"}
             => (Len(choosing) > EnsureArg(t) /\ Len(number) > EnsureArg(t)))

\* Witness of C11: ensure_bakery_size is about to append to number while an
\* existing slot holds the ticket of a thread in its critical section.
GrowthMonotonicWitness ==
    \E t, u \in Threads :
        /\ pc[t] = "lock_ens_num"
        /\ pc[u] = "cs"
        /\ At(number, bid[u]) > 0

\* A step that executes number[i] = 0 of bakery_unlock(i) for thread t.
UnlockStep(t) ==
    \/ pc[t] = "cs" /\ pc'[t] = "idle"
    \/ pc[t] = "cs" /\ nested[t] = 1 /\ nested'[t] = 2
    \/ pc[t] = "unlock" /\ pc'[t] = "idle"

\* C12 (release touches only the caller's ticket): bakery_unlock(i), by the
\* holder, by a thread that has released already or by one that never
\* acquired, sets number[i] to 0 or fails (no slot i, nothing written), and
\* leaves every choosing flag, every other ticket and the size of the registry
\* as they were.
ReleaseOwnTicket ==
    [][ \A t \in Threads :
           UnlockStep(t) =>
              /\ choosing' = choosing
              /\ Len(number') = Len(number)
              /\ \A k \in 0..(Len(number) - 1) :
                    k # bid[t] => At(number', k) = At(number, k)
              /\ IF bid[t] < Len(number)
                 THEN At(number', bid[t]) = 0
                 ELSE number' = number ]_vars

\* Witness of C12: the bakery_unlock of set_state has set the caller's ticket
\* to 0 inside the outer critical section, while another thread keeps its
\* ticket.
ReleaseOwnTicketWitness ==
    \E t, u \in Threads :
        /\ t # u
        /\ pc[t] = "cs" /\ nested[t] = 2
        /\ At(number, bid[t]) = 0
        /\ bid[u] # NoId /\ bid[u] < Len(number)
        /\ At(number, bid[u]) > 0

\* Thread t's scan leaves slot j[t]: the for loop takes the next j, or ends.
MovesPast(t) ==
    /\ pc[t] \in ScanPcs \ {"scan_start"}
    /\ \/ pc'[t] = "cs"
       \/ pc'[t] = "test_choosing" /\ j'[t] = j[t] + 1

\* C13 (wait-phase ticket check): the scan of thread i never moves past a slot
\* j whose ticket is nonzero and before its own in the order by ticket, then
\* index.
ScanRespectsTickets ==
    [][ \A t \in Threads :
           MovesPast(t) =>
              ~ /\ At(number, j[t]) # 0
                /\ LexLess(At(number, j[t]), j[t], At(number, bid[t]), bid[t]) ]_vars

\* C14 (choosing wait precedes the comparison): the scan goes from the test of
\* choosing[j] to the comparison against number[j] only when it has found
\* choosing[j] False; it does not compare while it knows j to be in its
\* choosing window.
ComparesAfterChoosing ==
    [][ \A t \in Threads :
           (pc[t] = "test_choosing" /\ pc'[t] = "inner_nz")
           => ~ At(choosing, j[t]) ]_vars

\* C15 (a holder blocks later requesters): a thread that called bakery_lock
\* while another was in its critical section, and holds a higher ticket than
\* that one, is not in its critical section before that one has released.
HolderBlocksLater ==
    \A t \in Threads :
        InCS(t) =>
           \A u \in holders[t] : ~ (At(number, bid[t]) > At(number, bid[u]))

\* Thread t is between the assignment of its ticket and the bakery_unlock that
\* ends its critical section (the one of the caller of set_state, if nested).
HasTicket(t) ==
    \/ pc[t] \in {"clear_choosing", "cs"} \cup ScanPcs
    \/ nested[t] >= 1

\* C16 (ticket iff not idle): number[i] is nonzero exactly from the assignment
\* of i's ticket to the bakery_unlock that ends its critical section, also in
\* critical sections that call Process.set_state.
TicketIffBusy ==
    \A t \in Threads :
        (bid[t] # NoId /\ bid[t] < Len(number))
        => (At(number, bid[t]) > 0 <=> HasTicket(t))

\* The statements of bakery_lock from the one after choosing[i] = True to
\* choosing[i] = False: the choosing window.
WindowPcs == {"read_max", "write_num", "clear_choosing"}

\* C17 (choosing window): choosing[i] is True exactly while thread i is inside
\* its choosing window; the read of the maximum and the write of number[i] are
\* made with choosing[i] True before and after them; so choosing[i] is False
\* while i waits, is in its critical section or is idle.
ChoosingWindow ==
    /\ [](\A t \in Threads :
             (bid[t] # NoId /\ bid[t] < Len(choosing))
             => (At(choosing, bid[t]) <=> pc[t] \in WindowPcs))
    /\ [][ \A t \in Threads :
              (pc[t] \in {"read_max", "write_num"} /\ pc'[t] # pc[t])
              => (At(choosing, bid[t]) /\ At(choosing', bid[t])) ]_vars

\* Witness of C17: a thread is about to write its ticket with its flag True
\* while another, its window over and its flag False, still has its ticket, in
\* its scan or in its critical section.
ChoosingWindowWitness ==
    \E t, u \in Threads :
        /\ pc[t] = "write_num" /\ At(choosing, bid[t])
        /\ pc[u] \in ScanPcs \cup {"cs"}
        /\ ~ At(choosing, bid[u]) /\ At(number, bid[u]) > 0

\* Thread t has written its ticket and not yet called the bakery_unlock that
\* follows.
PastWindow(t) == pc[t] \in {"clear_choosing", "cs"} \cup ScanPcs

\* C18 (ticket assignment): the maximum a thread reads is at least every
\* ticket in the registry at that moment; the ticket it writes is that maximum
\* plus 1; so its ticket is greater than the ticket of every thread that was
\* past its window (scanning, or in its critical section) before this window
\* began and has not entered or released since.
TicketAboveEarlier ==
    /\ [][ \A t \in Threads :
              (pc[t] = "read_max" /\ pc'[t] = "write_num")
              => \A k \in 1..Len(number) : max_num'[t] >= number[k] ]_vars
    /\ [][ \A t \in Threads :
              (pc[t] = "write_num" /\ pc'[t] = "clear_choosing")
              => At(number', bid[t]) = max_num[t] + 1 ]_vars
    /\ [](\A t \in Threads :
             PastWindow(t) =>
                \A u \in pred[t] \cup holders[t] :
                    At(number, bid[t]) > At(number, bid[u]))

\* Witness of C18: duplicate tickets. Two threads past their windows hold the
\* same nonzero ticket.
TicketAboveEarlierWitness ==
    \E t, u \in Threads :
        /\ t # u
        /\ PastWindow(t) /\ PastWindow(u)
        /\ At(number, bid[t]) > 0
        /\ At(number, bid[t]) = At(number, bid[u])

\* Slot bid[u] was appended after thread t took the range of its scan: t is
\* inside the for loop, and the slot is beyond the range.
AppendedAfterSnapshot(t, u) ==
    /\ pc[t] \in ScanPcs \ {"scan_start"}
    /\ bid[u] # NoId
    /\ n[t] <= bid[u] /\ bid[u] < Len(number)

\* C19 (late registration is safe): a thread whose slot was appended after
\* thread i took the range of its scan holds a ticket above number[i] and is
\* not in its critical section together with i: i's bakery_lock does not
\* return while that thread is in its critical section.
LateRegistrationSafe ==
    [][ \A t, u \in Threads :
           (t # u /\ AppendedAfterSnapshot(t, u) /\ InCS(u) /\ InCS(u)'
            /\ At(number, bid[u]) > At(number, bid[t]))
           => ~ InCS(t)' ]_vars

====
